---- MODULE Spec2Model ----
(***************************************************************************)
(* Model of linalg/src/frame/mmm/storage.rs: MatrixStoreSpec, MatrixStore  *)
(* (new, panel_a, panel_b, strides, tile_c, set_from_tile) and PanelStore. *)
(*                                                                         *)
(* Addresses are integers.  The destination memory is an overlay `mem`:    *)
(* a function from the byte addresses stored to so far to the byte stored. *)
(* Byte k of the representation of a value v is the pair <<v, k>>.         *)
(* usize/isize are WordBits wide; `as usize` and `as isize` are the        *)
(* two's-complement reinterpretations.  An arithmetic overflow wraps, or   *)
(* panics when the build has overflow checks (overflow_checks).            *)
(***************************************************************************)
EXTENDS Integers, Sequences, FiniteSets, TLC

\* ---------------------------------------------------------------- bounds
WordBits == 12
MaxCoord == 1
MaxPanel == 1
MaxWrites == 1

WordMod == 2 ^ WordBits

\* ------------------------------------------------------------ input sets
BasePtrs == {64}
ItemSizes == {1, 2}
KernelShapes == {<<1, 1>>, <<2, 1>>, <<1, 2>>, <<2, 2>>}
\* strides in elements; a spec's byte strides are these times the element size
StridePairs == {<<4, 1>>, <<1, 4>>, <<-4, 1>>, <<-8, -2>>, <<1, 1>>, <<4, 0>>}
VecStrides == {1, 4, -2}
PanelLens == {2, 8}
RowOffsets == {<<0, 4>>}
ColOffsets == {<<0, 1, 8, 9>>, <<6, -2>>}

Coords == 0 .. MaxCoord
Panels == 0 .. MaxPanel
PanelCounts == 1 .. (MaxPanel + 2)

\* --------------------------------------------------------- MatrixStoreSpec
View(axes) == [kind |-> "View", axes |-> axes]
Packed(panel_len) == [kind |-> "Packed", panel_len |-> panel_len]
Strides(r, c) == [kind |-> "Strides", row_byte_stride |-> r, col_byte_stride |-> c]
OffsetsAndPtrs(rows, cols, nr) ==
    [kind |-> "OffsetsAndPtrs", row_byte_offsets |-> rows, col_byte_offsets |-> cols, nr |-> nr]
VecStride(s, mr, nr) == [kind |-> "VecStride", byte_stride |-> s, mr |-> mr, nr |-> nr]

\* A tensor view as the tensor provider exposes it: base address, per-axis
\* strides in elements (axis a is strides[a + 1]), element size in bytes.
TensorView(ptr, strides_, size) == [ptr |-> ptr, strides |-> strides_, size |-> size]
rank(t) == Len(t.strides)
DefaultTensors == {TensorView(p, <<4, 1>>, z) : p \in BasePtrs, z \in ItemSizes}

\* The (spec, tensor) pairs a store is built from.  A View is bound to a tensor
\* of rank >= 2 whose axes the spec names; the other variants never read the
\* tensor's strides.  Byte strides are multiples of the element size.
Bindings ==
    {<<View(a), TensorView(p, t[1], t[2])>> :
        a \in {<<>>}, p \in BasePtrs,
        t \in {<<<<4, 1>>, 1>>, <<<<1, 4>>, 2>>, <<<<8, 4, 1>>, 1>>, <<<<8, 1, 2>>, 2>>}}
    \cup {<<View(a), TensorView(p, t[1], t[2])>> :
        a \in {<<1, 0>>}, p \in BasePtrs, t \in {<<<<4, 1>>, 1>>, <<<<-4, 1>>, 2>>}}
    \cup {<<View(a), TensorView(p, t[1], t[2])>> :
        a \in {<<0, 2>>}, p \in BasePtrs, t \in {<<<<8, 4, 1>>, 1>>, <<<<8, 1, 2>>, 2>>}}
    \cup {<<Strides(p[1] * t.size, p[2] * t.size), t>> : p \in StridePairs, t \in DefaultTensors}
    \cup {<<VecStride(s * t.size, 2, 1), t>> : s \in VecStrides, t \in DefaultTensors}
    \cup {<<Packed(l), t>> : l \in PanelLens, t \in DefaultTensors}
    \cup {<<OffsetsAndPtrs(r, c, n), t>> : r \in RowOffsets, c \in ColOffsets, n \in 1 .. 2,
                                          t \in DefaultTensors}

\* ------------------------------------------------------------- machine words
\* `v as usize` for an isize v
ToUsize(v) == v % WordMod
\* `u as isize` for a usize u
ToIsize(u) == IF u % WordMod >= WordMod \div 2 THEN (u % WordMod) - WordMod ELSE u % WordMod

\* ---------------------------------------------------------------- PanelStore
Panic == [kind |-> "panic"]
NoRet == [kind |-> "none"]
PS_Strides(ptr, r, c, item_size) ==
    [kind |-> "Strides", ptr |-> ptr, row_byte_stride |-> r, col_byte_stride |-> c,
     item_size |-> item_size]
PS_Packed(ptr) == [kind |-> "Packed", ptr |-> ptr]
PS_OffsetsAndPtrs(rows, cols) ==
    [kind |-> "OffsetsAndPtrs", row_byte_offsets |-> rows, col_ptrs |-> cols]
PS_VecStride(ptr, s, item_size) ==
    [kind |-> "VecStride", ptr |-> ptr, byte_stride |-> s, item_size |-> item_size]

\* Option<Vec<*const u8>>
None == [some |-> FALSE, v |-> <<>>]
Some(v) == [some |-> TRUE, v |-> v]

\* A pointer into a Vec at element k (0-based): what is read through it.
PtrInto(v, k) == SubSeq(v, k + 1, Len(v))

\* spec, tensor     what the store borrows (MatrixStore::spec, MatrixStore::tensor)
\* kernel           the micro-kernel's tile shape (mr, nr), which the caller passes
\*                  to every panel_b / tile_c / set_from_tile call of one multiply
\* overflow_checks  whether the build panics on integer overflow (else it wraps)
\* pc               "unbound" before wrap, "bound" while the store is usable,
\*                  "aborted" after a panic
\* col_ptrs         MatrixStore::col_ptrs
\* mem              the destination bytes stored so far
\* call, ret        the last call with its arguments, and what it returned
\* wlog             the stores the last call performed, in program order
\* nwrites          number of set_from_tile calls so far
VARIABLES spec, tensor, kernel, overflow_checks, pc, col_ptrs, mem, call, ret, wlog, nwrites

vars == <<spec, tensor, kernel, overflow_checks, pc, col_ptrs, mem, call, ret, wlog, nwrites>>

\* ------------------------------------------------------------- MatrixStore
\* MatrixStore::new: the column-pointer table
new(s, t) ==
    IF s.kind = "OffsetsAndPtrs"
    THEN Some([k \in 1 .. Len(s.col_byte_offsets) |-> t.ptr + s.col_byte_offsets[k]])
    ELSE None

\* Faulty variant of panel_a: falls back to the base address on a spec that is
\* not Packed instead of aborting.
panel_a_fallback(s, t, i) ==
    IF s.kind = "Packed"
    THEN PS_Packed(t.ptr + ToIsize(s.panel_len * i * t.size))
    ELSE PS_Packed(t.ptr)

\* Faulty variant of panel_a: the panel offset counted in elements, not bytes.
panel_a_elements(s, t, i) ==
    IF s.kind = "Packed"
    THEN PS_Packed(t.ptr + ToIsize(s.panel_len * i))
    ELSE Panic

panel_a(s, t, i) ==
    IF s.kind = "Packed"
    THEN PS_Packed(t.ptr + ToIsize(s.panel_len * i * t.size))
    ELSE Panic

\* Faulty variant of panel_b: the single-column tail test off by one panel.
panel_b_tail(s, t, cp, nr, i, n) ==
    CASE s.kind = "Packed" ->
           IF nr * (i + 1) = n
           THEN PS_VecStride(t.ptr + ToIsize(s.panel_len * i * t.size),
                             ToIsize(nr * t.size), t.size)
           ELSE PS_Packed(t.ptr + ToIsize(s.panel_len * i * t.size))
      [] s.kind = "OffsetsAndPtrs" ->
           IF cp.some
           THEN PS_OffsetsAndPtrs(s.row_byte_offsets, PtrInto(cp.v, s.nr * i))
           ELSE Panic
      [] s.kind = "VecStride" -> PS_VecStride(t.ptr, s.byte_stride, t.size)
      [] OTHER -> Panic

\* Faulty variant of panel_b: the table is indexed with the caller's nr, not
\* the spec's.
panel_b_caller_nr(s, t, cp, nr, i, n) ==
    CASE s.kind = "Packed" ->
           IF nr * i + 1 = n
           THEN PS_VecStride(t.ptr + ToIsize(s.panel_len * i * t.size),
                             ToIsize(nr * t.size), t.size)
           ELSE PS_Packed(t.ptr + ToIsize(s.panel_len * i * t.size))
      [] s.kind = "OffsetsAndPtrs" ->
           IF cp.some
           THEN PS_OffsetsAndPtrs(s.row_byte_offsets, PtrInto(cp.v, nr * i))
           ELSE Panic
      [] s.kind = "VecStride" -> PS_VecStride(t.ptr, s.byte_stride, t.size)
      [] OTHER -> Panic

panel_b(s, t, cp, nr, i, n) ==
    CASE s.kind = "Packed" ->
           IF nr * i + 1 = n
           THEN PS_VecStride(t.ptr + ToIsize(s.panel_len * i * t.size),
                             ToIsize(nr * t.size), t.size)
           ELSE PS_Packed(t.ptr + ToIsize(s.panel_len * i * t.size))
      [] s.kind = "OffsetsAndPtrs" ->
           IF cp.some
           THEN PS_OffsetsAndPtrs(s.row_byte_offsets, PtrInto(cp.v, s.nr * i))
           ELSE Panic
      [] s.kind = "VecStride" -> PS_VecStride(t.ptr, s.byte_stride, t.size)
      [] OTHER -> Panic

\* Faulty variant of strides: the default axes of a View taken in the wrong order.
strides_swapped(s, t) ==
    CASE s.kind = "View" ->
           LET m_axis == IF Len(s.axes) = 2 THEN s.axes[1] ELSE rank(t) - 1
               n_axis == IF Len(s.axes) = 2 THEN s.axes[2] ELSE rank(t) - 2
           IN  [kind |-> "ok",
                row |-> t.strides[m_axis + 1] * t.size,
                col |-> t.strides[n_axis + 1] * t.size]
      [] s.kind = "Strides" ->
           [kind |-> "ok", row |-> s.row_byte_stride, col |-> s.col_byte_stride]
      [] s.kind = "VecStride" -> [kind |-> "ok", row |-> s.byte_stride, col |-> 0]
      [] OTHER -> Panic

\* Faulty variant of strides: a VecStride given a column stride.
strides_vec_col(s, t) ==
    CASE s.kind = "View" ->
           LET m_axis == IF Len(s.axes) = 2 THEN s.axes[1] ELSE rank(t) - 2
               n_axis == IF Len(s.axes) = 2 THEN s.axes[2] ELSE rank(t) - 1
           IN  [kind |-> "ok",
                row |-> t.strides[m_axis + 1] * t.size,
                col |-> t.strides[n_axis + 1] * t.size]
      [] s.kind = "Strides" ->
           [kind |-> "ok", row |-> s.row_byte_stride, col |-> s.col_byte_stride]
      [] s.kind = "VecStride" -> [kind |-> "ok", row |-> s.byte_stride, col |-> s.byte_stride]
      [] OTHER -> Panic

strides(s, t) ==
    CASE s.kind = "View" ->
           LET m_axis == IF Len(s.axes) = 2 THEN s.axes[1] ELSE rank(t) - 2
               n_axis == IF Len(s.axes) = 2 THEN s.axes[2] ELSE rank(t) - 1
           IN  [kind |-> "ok",
                row |-> t.strides[m_axis + 1] * t.size,
                col |-> t.strides[n_axis + 1] * t.size]
      [] s.kind = "Strides" ->
           [kind |-> "ok", row |-> s.row_byte_stride, col |-> s.col_byte_stride]
      [] s.kind = "VecStride" -> [kind |-> "ok", row |-> s.byte_stride, col |-> 0]
      [] OTHER -> Panic

\* Faulty variant of tile_c: mr and nr exchanged in the tile offset.
tile_c_swapped(s, t, down, right, mr, nr) ==
    CASE s.kind \in {"Strides", "View"} ->
           LET st == strides(s, t)
           IN  PS_Strides(t.ptr + st.row * down * nr + st.col * right * mr,
                          st.row, st.col, t.size)
      [] s.kind = "VecStride" ->
           LET st == strides(s, t)
           IN  PS_VecStride(t.ptr + st.row * down * mr, st.row, t.size)
      [] OTHER -> Panic

tile_c(s, t, down, right, mr, nr) ==
    CASE s.kind \in {"Strides", "View"} ->
           LET st == strides(s, t)
           IN  PS_Strides(t.ptr + st.row * down * mr + st.col * right * nr,
                          st.row, st.col, t.size)
      [] s.kind = "VecStride" ->
           LET st == strides(s, t)
           IN  PS_VecStride(t.ptr + st.row * down * mr, st.row, t.size)
      [] OTHER -> Panic

\* The usize expression of set_from_tile's first offset:
\*   row_byte_stride as usize * (down * mr) + col_byte_stride as usize * (right * nr)
\* Its exact value, before any wrap.
dst_usize(st, down, right, mr, nr) ==
    [a |-> ToUsize(st.row) * (down * mr), b |-> ToUsize(st.col) * (right * nr)]

\* Does that expression overflow a usize (a product, or the sum of the wrapped products)?
dst_overflows(st, down, right, mr, nr) ==
    LET e == dst_usize(st, down, right, mr, nr)
    IN  \/ e.a >= WordMod
        \/ e.b >= WordMod
        \/ (e.a % WordMod) + (e.b % WordMod) >= WordMod

\* Faulty variant of dst_offset: the wrapped usize taken as the offset without
\* the reinterpretation as a signed word.
dst_offset_unsigned(st, down, right, mr, nr) ==
    LET e == dst_usize(st, down, right, mr, nr)
    IN  (e.a + e.b) % WordMod

\* ... `as isize`: the byte offset of the first element from the base
dst_offset(st, down, right, mr, nr) ==
    LET e == dst_usize(st, down, right, mr, nr)
    IN  ToIsize((e.a + e.b) % WordMod)

\* Faulty variant of tile_writes: the tile read row by row.
tile_writes_row_major(s, t, st, dst, height, width, tile, mr) ==
    CASE s.kind \in {"Strides", "View"} ->
           [k \in 1 .. height * width |->
              LET y == (k - 1) \div width
                  x == (k - 1) % width
              IN  <<dst + y * st.row + x * st.col, tile[y * width + x]>>]
      [] s.kind = "VecStride" ->
           [k \in 1 .. height |-> <<dst + (k - 1) * st.row, tile[k - 1]>>]
      [] OTHER -> <<>>

\* Faulty variant of tile_writes: the row pointer advanced by the column stride.
tile_writes_row_step(s, t, st, dst, height, width, tile, mr) ==
    CASE s.kind \in {"Strides", "View"} ->
           [k \in 1 .. height * width |->
              LET y == (k - 1) \div width
                  x == (k - 1) % width
              IN  <<dst + y * st.col + x * st.col, tile[y + x * mr]>>]
      [] s.kind = "VecStride" ->
           [k \in 1 .. height |-> <<dst + (k - 1) * st.row, tile[k - 1]>>]
      [] OTHER -> <<>>

\* The stores set_from_tile performs, in program order, as <<address, value>>.
\* `tile` is the source buffer, indexed from 0.
tile_writes(s, t, st, dst, height, width, tile, mr) ==
    CASE s.kind \in {"Strides", "View"} ->
           [k \in 1 .. height * width |->
              LET y == (k - 1) \div width
                  x == (k - 1) % width
              IN  <<dst + y * st.row + x * st.col, tile[y + x * mr]>>]
      [] s.kind = "VecStride" ->
           [k \in 1 .. height |-> <<dst + (k - 1) * st.row, tile[k - 1]>>]
      [] OTHER -> <<>>

set_from_tile(s, t, checks, down, right, height, width, tile, mr, nr) ==
    LET st == strides(s, t)
    IN  IF st = Panic
        THEN [panic |-> TRUE, writes |-> <<>>]
        ELSE IF checks /\ dst_overflows(st, down, right, mr, nr)
        THEN [panic |-> TRUE, writes |-> <<>>]
        ELSE IF s.kind \notin {"Strides", "View", "VecStride"}
        THEN [panic |-> TRUE, writes |-> <<>>]
        ELSE [panic |-> FALSE,
              writes |-> tile_writes(s, t, st, t.ptr + dst_offset(st, down, right, mr, nr),
                                     height, width, tile, mr)]

\* ------------------------------------------------------------------ memory
\* *(a as *mut T) = v, with size_of::<T>() = size
Store(m, a, v, size) ==
    [b \in (DOMAIN m) \cup (a .. a + size - 1) |->
       IF b \in a .. a + size - 1 THEN <<v, b - a>> ELSE m[b]]

RECURSIVE ApplyWrites(_, _, _)
ApplyWrites(m, ws, size) ==
    IF ws = <<>> THEN m
    ELSE ApplyWrites(Store(m, Head(ws)[1], Head(ws)[2], size), Tail(ws), size)

EmptyMem == [b \in {} |-> <<0, 0>>]

\* The value of type T read at address a; -1 when the bytes there are not the
\* bytes of one stored value (no tile value is negative).
Load(m, a, size) ==
    IF /\ \A k \in 0 .. size - 1 : a + k \in DOMAIN m
       /\ \A k \in 0 .. size - 1 : m[a + k] = <<m[a][1], k>>
    THEN m[a][1]
    ELSE -1

\* The micro-kernel's temporary tile for a kernel of shape (mr, nr)
Tile(mr, nr) == [k \in 0 .. mr * nr - 1 |-> 101 + k]

\* ------------------------------------------------------------------ actions
Init ==
    /\ \E b \in Bindings : spec = b[1] /\ tensor = b[2]
    /\ \E k \in KernelShapes : kernel = [mr |-> k[1], nr |-> k[2]]
    /\ overflow_checks \in BOOLEAN
    /\ pc = "unbound"
    /\ col_ptrs = None
    /\ mem = EmptyMem
    /\ call = [op |-> "none"]
    /\ ret = NoRet
    /\ wlog = <<>>
    /\ nwrites = 0

\* MatrixStoreSpec::wrap -> MatrixStore::new
wrap ==
    /\ pc = "unbound"
    /\ pc' = "bound"
    /\ col_ptrs' = new(spec, tensor)
    /\ call' = [op |-> "wrap"]
    /\ UNCHANGED <<spec, tensor, kernel, overflow_checks, mem, ret, wlog, nwrites>>

\* An accessor that returns a descriptor or panics; it stores nothing.
Returns(c, r) ==
    /\ call' = c
    /\ ret' = r
    /\ pc' = IF r = Panic THEN "aborted" ELSE "bound"
    /\ wlog' = <<>>
    /\ UNCHANGED <<spec, tensor, kernel, overflow_checks, col_ptrs, mem, nwrites>>

Call_panel_a ==
    /\ pc = "bound"
    /\ \E i \in Panels :
         Returns([op |-> "panel_a", i |-> i], panel_a(spec, tensor, i))

Call_panel_b ==
    /\ pc = "bound"
    /\ \E i \in Panels, n \in PanelCounts :
         /\ spec.kind = "OffsetsAndPtrs" => spec.nr * i < Len(spec.col_byte_offsets)
         /\ Returns([op |-> "panel_b", nr |-> kernel.nr, i |-> i, n |-> n],
                    panel_b(spec, tensor, col_ptrs, kernel.nr, i, n))

Call_tile_c ==
    /\ pc = "bound"
    /\ \E down \in Coords, right \in Coords :
         Returns([op |-> "tile_c", down |-> down, right |-> right,
                  mr |-> kernel.mr, nr |-> kernel.nr],
                 tile_c(spec, tensor, down, right, kernel.mr, kernel.nr))

Call_set_from_tile ==
    /\ pc = "bound"
    /\ nwrites < MaxWrites
    /\ \E down \in Coords, right \in Coords, height \in 0 .. kernel.mr, width \in 0 .. kernel.nr :
         LET tile == Tile(kernel.mr, kernel.nr)
             r == set_from_tile(spec, tensor, overflow_checks, down, right, height, width,
                                tile, kernel.mr, kernel.nr)
         IN  /\ call' = [op |-> "set_from_tile", down |-> down, right |-> right,
                         height |-> height, width |-> width, tile |-> tile,
                         mr |-> kernel.mr, nr |-> kernel.nr]
             /\ ret' = IF r.panic THEN Panic ELSE NoRet
             /\ pc' = IF r.panic THEN "aborted" ELSE "bound"
             /\ wlog' = r.writes
             /\ mem' = ApplyWrites(mem, r.writes, tensor.size)
             /\ nwrites' = nwrites + 1
             /\ UNCHANGED <<spec, tensor, kernel, overflow_checks, col_ptrs>>

Next ==
    \/ wrap
    \/ Call_panel_a
    \/ Call_panel_b
    \/ Call_tile_c
    \/ Call_set_from_tile

Spec == Init /\ [][Next]_vars

\* ------------------------------------------------------------- properties
\* The last call was `op` and it returned.
Returned(op) == pc = "bound" /\ call.op = op

\* The effective strides as the layout variants define them (section 4.3 of
\* the design), stated without the model's `strides`.
ExpRow ==
    CASE spec.kind = "Strides" -> spec.row_byte_stride
      [] spec.kind = "VecStride" -> spec.byte_stride
      [] spec.kind = "View" ->
           IF Len(spec.axes) = 2
           THEN tensor.strides[spec.axes[1] + 1] * tensor.size
           ELSE tensor.strides[Len(tensor.strides) - 1] * tensor.size
      [] OTHER -> 0
ExpCol ==
    CASE spec.kind = "Strides" -> spec.col_byte_stride
      [] spec.kind = "VecStride" -> 0
      [] spec.kind = "View" ->
           IF Len(spec.axes) = 2
           THEN tensor.strides[spec.axes[2] + 1] * tensor.size
           ELSE tensor.strides[Len(tensor.strides)] * tensor.size
      [] OTHER -> 0

\* Address of element (y, x) of the region the last set_from_tile addressed
RegionAddr(y, x) ==
    tensor.ptr + ExpRow * (call.down * call.mr + y) + ExpCol * (call.right * call.nr + x)

RegionCells == (0 .. call.height - 1) \X (0 .. call.width - 1)

\* No two elements of the region share a byte.
NonOverlapping ==
    \A p \in RegionCells, q \in RegionCells :
        p # q =>
          LET d == RegionAddr(p[1], p[2]) - RegionAddr(q[1], q[2])
          IN  d >= tensor.size \/ -d >= tensor.size

\* The region read back through the Strides/View geometry is the tile.
ReadsBackTile ==
    \A p \in RegionCells :
        Load(mem, RegionAddr(p[1], p[2]), tensor.size) = call.tile[p[1] + p[2] * call.mr]

C2_PackedTail ==
    (call.op = "panel_b" /\ spec.kind = "Packed") =>
        /\ pc = "bound"
        /\ ret.kind = IF call.nr * call.i + 1 = call.n THEN "VecStride" ELSE "Packed"

C2_Witness ==
    /\ Returned("panel_b") /\ spec.kind = "Packed"
    /\ ret.kind = "VecStride" /\ call.i >= 1 /\ call.nr = 2

\* C3: panel_a on a Packed store of panel length L over elements of size S
\* returns a Packed descriptor at base + L*i*S (L=8, S=4, i=3: base + 96).
C3_PanelAAddress ==
    /\ (call.op = "panel_a" /\ spec.kind = "Packed") =>
          /\ pc = "bound"
          /\ ret.kind = "Packed"
          /\ ret.ptr = tensor.ptr + spec.panel_len * call.i * tensor.size
    /\ panel_a(Packed(8), TensorView(0, <<1>>, 4), 3) = [kind |-> "Packed", ptr |-> 96]

C3_Witness ==
    /\ Returned("panel_a") /\ ret.kind = "Packed"
    /\ call.i >= 1 /\ tensor.size = 2 /\ spec.panel_len = 8

\* C4: tile_c on a Strides or View store returns a Strides descriptor at
\* base + row_stride*down*mr + col_stride*right*nr carrying the effective
\* strides and the element size (strides (16, 4), mr=nr=4, down=1, right=2:
\* base + 96).
C4_TileCAddress ==
    /\ (call.op = "tile_c" /\ spec.kind \in {"Strides", "View"}) =>
          /\ pc = "bound"
          /\ ret.kind = "Strides"
          /\ ret.ptr = tensor.ptr + ExpRow * call.down * call.mr
                                  + ExpCol * call.right * call.nr
          /\ ret.row_byte_stride = ExpRow
          /\ ret.col_byte_stride = ExpCol
          /\ ret.item_size = tensor.size
    /\ tile_c(Strides(16, 4), TensorView(0, <<4, 1>>, 4), 1, 2, 4, 4).ptr = 96

C4_Witness ==
    /\ Returned("tile_c") /\ ret.kind = "Strides"
    /\ ExpRow < 0 /\ call.down = 1 /\ call.right = 1 /\ call.mr = 2 /\ call.nr = 1

\* A call of an accessor on a layout it does not support
Violation(c) ==
    \/ c.op = "panel_a" /\ spec.kind # "Packed"
    \/ c.op = "panel_b" /\ spec.kind \in {"View", "Strides"}
    \/ c.op = "tile_c" /\ spec.kind \in {"Packed", "OffsetsAndPtrs"}
    \/ c.op = "set_from_tile" /\ spec.kind \in {"Packed", "OffsetsAndPtrs"}

\* C5: every contract violation aborts, returns no descriptor and performs no
\* store: the destination memory is the same before and after the call; and
\* strides() itself aborts on Packed and OffsetsAndPtrs.
C5_ViolationsAbort ==
    /\ [](Violation(call) => (pc = "aborted" /\ ret = Panic /\ wlog = <<>>))
    /\ [](spec.kind \in {"Packed", "OffsetsAndPtrs"} => strides(spec, tensor) = Panic)
    /\ [][Violation(call') => mem' = mem]_vars

C5_Witness ==
    /\ pc = "aborted" /\ call.op = "panel_a" /\ spec.kind = "Strides"
    /\ DOMAIN mem # {}

VecTargetBytes(c) ==
    UNION {LET a == tensor.ptr + spec.byte_stride * (c.down * c.mr + y)
           IN  a .. a + tensor.size - 1 : y \in 0 .. c.height - 1}

C8_StridesByVariant ==
    /\ spec.kind \in {"View", "Strides", "VecStride"} =>
          strides(spec, tensor) = [kind |-> "ok", row |-> ExpRow, col |-> ExpCol]
    /\ (Returned("tile_c") /\ spec.kind \in {"View", "Strides"}) =>
          <<ret.row_byte_stride, ret.col_byte_stride>> = <<ExpRow, ExpCol>>

C8_Witness ==
    /\ Returned("tile_c") /\ spec.kind = "View" /\ spec.axes = <<>>
    /\ Len(tensor.strides) = 3 /\ tensor.size = 2
    /\ ret.row_byte_stride = 2 /\ ret.col_byte_stride = 4

\* C9 as stated: the element stored at row y, column x of the region is the
\* source buffer's element y*mr + x (wherever that index is inside the buffer).
C9_RowMajorTile ==
    (Returned("set_from_tile") /\ spec.kind \in {"Strides", "View"}) =>
        \A p \in RegionCells :
            p[1] * call.mr + p[2] \in DOMAIN call.tile =>
                wlog[p[1] * call.width + p[2] + 1][2] = call.tile[p[1] * call.mr + p[2]]

\* C9 amended: the element stored at row y, column x of the region is the
\* source buffer's element y + x*mr (the tile is read column by column, with
\* column stride mr).
C9_ColumnMajorTile ==
    (Returned("set_from_tile") /\ spec.kind \in {"Strides", "View"}) =>
        /\ Len(wlog) = call.height * call.width
        /\ \A p \in RegionCells :
             wlog[p[1] * call.width + p[2] + 1] =
                 <<RegionAddr(p[1], p[2]), call.tile[p[1] + p[2] * call.mr]>>

C9_Witness ==
    /\ Returned("set_from_tile") /\ spec.kind = "View"
    /\ call.height = 2 /\ call.width = 2

\* C10: once the store is bound, the column-pointer table is present exactly
\* for OffsetsAndPtrs, has one entry base + col_byte_offsets[k] per offset, and
\* no accessor call changes it; panel_b on such a store returns an
\* OffsetsAndPtrs descriptor at table entry nr*i, nr being the spec's, and at
\* the spec's row byte offsets.
C10_ColPtrs ==
    /\ [](pc # "unbound" =>
            /\ col_ptrs.some <=> spec.kind = "OffsetsAndPtrs"
            /\ col_ptrs.some =>
                 /\ Len(col_ptrs.v) = Len(spec.col_byte_offsets)
                 /\ \A k \in 1 .. Len(col_ptrs.v) :
                      col_ptrs.v[k] = tensor.ptr + spec.col_byte_offsets[k])
    /\ []((call.op = "panel_b" /\ spec.kind = "OffsetsAndPtrs") =>
            /\ pc = "bound"
            /\ ret.kind = "OffsetsAndPtrs"
            /\ ret.row_byte_offsets = spec.row_byte_offsets
            /\ ret.col_ptrs =
                 [k \in 1 .. Len(spec.col_byte_offsets) - spec.nr * call.i |->
                    tensor.ptr + spec.col_byte_offsets[spec.nr * call.i + k]])
    /\ [][pc # "unbound" => col_ptrs' = col_ptrs]_vars

C10_Witness ==
    /\ Returned("panel_b") /\ spec.kind = "OffsetsAndPtrs"
    /\ ret.kind = "OffsetsAndPtrs" /\ call.i >= 1 /\ spec.nr # call.nr
    /\ Len(ret.col_ptrs) >= 1

====
